---- MODULE Spec2Model ----
(***************************************************************************)
(* Model of the Spring Boot scaffolder (src/scaffolder.js): the download   *)
(* of starter.zip, its extraction into an in-memory files object, the      *)
(* removal filter and the temporary-directory lifecycle of scaffold().     *)
(*                                                                         *)
(* Strings are TLA+ strings (TLC evaluates Len, \o, SubSeq on them); file  *)
(* bytes are sequences of 0..255; a JavaScript object used as a map is a   *)
(* record of its own properties and its prototype link.                    *)
(***************************************************************************)
EXTENDS Integers, Sequences, FiniteSets, TLC

(***************************************************************************)
(* Bounds of the model.                                                    *)
(***************************************************************************)
\* Number of scaffold() invocations that may run concurrently.
NumInv == 2
\* Number of 'data' chunks the response body of one download is cut into.
MaxChunks == 1

\* Depth of the directory trees the walk is applied to.
MaxDepth == 2
\* Length of the removal lists removeFiles is applied to.
MaxRemove == 2
\* Length of the file contents the reads are applied to.
MaxBytes == 3

Inv == 1 .. NumInv

(***************************************************************************)
(* String helpers.                                                         *)
(***************************************************************************)
CharAt(s, i) == SubSeq(s, i, i)

EndsWith(s, suffix) ==
  /\ Len(s) >= Len(suffix)
  /\ SubSeq(s, Len(s) - Len(suffix) + 1, Len(s)) = suffix

UpperChars == "ABCDEFGHIJKLMNOPQRSTUVWXYZ"
LowerChars == "abcdefghijklmnopqrstuvwxyz"

\* One character folded the way the regular expressions' /i flag folds it.
LowerMap ==
  [c \in {CharAt(UpperChars, k) : k \in 1 .. 26} |->
     CharAt(LowerChars, CHOOSE k \in 1 .. 26 : CharAt(UpperChars, k) = c)]

LowerOf(c) == IF c \in DOMAIN LowerMap THEN LowerMap[c] ELSE c

RECURSIVE ToLower(_)
ToLower(s) == IF Len(s) = 0 THEN "" ELSE LowerOf(Head(s)) \o ToLower(Tail(s))

\* Characters the regular-expression dot does not match.
LineTerminators == {"\n", "\r"}

HasLineTerminator(s) == \E k \in 1 .. Len(s) : CharAt(s, k) \in LineTerminators

\* path.join(a, b) of two normalised relative POSIX paths.
PathJoin(a, b) == a \o "/" \o b

(***************************************************************************)
(* File contents.  A file's bytes are a sequence of 0..255; a JavaScript   *)
(* string is the sequence of its UTF-16 code units.                        *)
(***************************************************************************)
\* Code units of the base64 alphabet: A-Z, a-z, 0-9, '+', '/'.
Base64Code(n) ==
  IF n < 26 THEN 65 + n
  ELSE IF n < 52 THEN 97 + (n - 26)
  ELSE IF n < 62 THEN 48 + (n - 52)
  ELSE IF n = 62 THEN 43 ELSE 47

Base64Pad == 61

\* buffer.toString('base64'): three bytes become four characters, the tail
\* is padded with '='.
RECURSIVE Base64Encode(_)
Base64Encode(b) ==
  IF Len(b) = 0 THEN << >>
  ELSE IF Len(b) = 1 THEN
    << Base64Code(b[1] \div 4), Base64Code((b[1] % 4) * 16), Base64Pad, Base64Pad >>
  ELSE IF Len(b) = 2 THEN
    << Base64Code(b[1] \div 4), Base64Code((b[1] % 4) * 16 + (b[2] \div 16)),
       Base64Code((b[2] % 16) * 4), Base64Pad >>
  ELSE
    << Base64Code(b[1] \div 4), Base64Code((b[1] % 4) * 16 + (b[2] \div 16)),
       Base64Code((b[2] % 16) * 4 + (b[3] \div 64)), Base64Code(b[3] % 64) >>
    \o Base64Encode(SubSeq(b, 4, Len(b)))

ReplacementChar == 65533

IsCont(x) == x >= 128 /\ x <= 191

\* The second byte a lead byte of a 3- or 4-byte sequence accepts.
SecondOk(b1, b2) ==
  IF b1 = 224 THEN b2 >= 160 /\ b2 <= 191
  ELSE IF b1 = 237 THEN b2 >= 128 /\ b2 <= 159
  ELSE IF b1 = 240 THEN b2 >= 144 /\ b2 <= 191
  ELSE IF b1 = 244 THEN b2 >= 128 /\ b2 <= 143
  ELSE IsCont(b2)

\* A code point as UTF-16 code units.
CodeUnits(cp) ==
  IF cp < 65536 THEN << cp >>
  ELSE << 55296 + ((cp - 65536) \div 1024), 56320 + ((cp - 65536) % 1024) >>

\* buffer.toString('utf8'): well-formed sequences decode to their code
\* point, every maximal ill-formed subpart becomes U+FFFD; a byte order
\* mark is kept.
RECURSIVE Utf8Decode(_)
Utf8Decode(b) ==
  IF Len(b) = 0 THEN << >>
  ELSE
    LET b1 == b[1]
        n == Len(b)
        rest(k) == Utf8Decode(SubSeq(b, k + 1, n))
    IN
      IF b1 < 128 THEN << b1 >> \o rest(1)
      ELSE IF b1 >= 194 /\ b1 <= 223 THEN
        IF n >= 2 /\ IsCont(b[2])
        THEN << (b1 - 192) * 64 + (b[2] - 128) >> \o rest(2)
        ELSE << ReplacementChar >> \o rest(1)
      ELSE IF b1 >= 224 /\ b1 <= 239 THEN
        IF n >= 2 /\ SecondOk(b1, b[2]) THEN
          IF n >= 3 /\ IsCont(b[3])
          THEN << (b1 - 224) * 4096 + (b[2] - 128) * 64 + (b[3] - 128) >> \o rest(3)
          ELSE << ReplacementChar >> \o rest(2)
        ELSE << ReplacementChar >> \o rest(1)
      ELSE IF b1 >= 240 /\ b1 <= 244 THEN
        IF n >= 2 /\ SecondOk(b1, b[2]) THEN
          IF n >= 3 /\ IsCont(b[3]) THEN
            IF n >= 4 /\ IsCont(b[4])
            THEN CodeUnits((b1 - 240) * 262144 + (b[2] - 128) * 4096
                           + (b[3] - 128) * 64 + (b[4] - 128)) \o rest(4)
            ELSE << ReplacementChar >> \o rest(3)
          ELSE << ReplacementChar >> \o rest(2)
        ELSE << ReplacementChar >> \o rest(1)
      ELSE << ReplacementChar >> \o rest(1)

(***************************************************************************)
(* Classification of one directory entry by its bare name.                 *)
(***************************************************************************)
BinaryExtensions ==
  {"jar", "class", "png", "jpg", "jpeg", "gif", "ico", "zip", "gz", "tar", "war", "ear"}

\* Faulty variant of isBinary: the dot before the extension is not required.
isBinary_NoDot(name) ==
  \E ext \in BinaryExtensions : EndsWith(ToLower(name), ext)

\* /\.(jar|class|png|jpg|jpeg|gif|ico|zip|gz|tar|war|ear)$/i.test(name)
isBinary(name) ==
  LET lower == ToLower(name)
  IN \E ext \in BinaryExtensions : EndsWith(lower, "." \o ext)

\* /^(gradlew|gradlew\.bat|.*\.sh)$/i.test(name)
shouldBeExecutable(name) ==
  LET lower == ToLower(name)
  IN \/ lower \in {"gradlew", "gradlew.bat"}
     \/ /\ EndsWith(lower, ".sh")
        /\ ~HasLineTerminator(SubSeq(name, 1, Len(name) - 3))

(***************************************************************************)
(* The files object.  `own` maps the object's own property names to        *)
(* entries; `proto` is << >> while the prototype is Object.prototype and   *)
(* << e >> once an assignment to the name __proto__ has made the entry e   *)
(* the prototype.                                                          *)
(***************************************************************************)
NewFiles == [own |-> << >>, proto |-> << >>]

\* Names every object inherits from Object.prototype, all with truthy values.
ObjectPrototypeKeys ==
  {"constructor", "toString", "toLocaleString", "valueOf", "hasOwnProperty",
   "isPrototypeOf", "propertyIsEnumerable", "__defineGetter__",
   "__defineSetter__", "__lookupGetter__", "__lookupSetter__", "__proto__"}

Keys(files) == DOMAIN files.own

\* files[key] = entry
SetProperty(files, key, entry) ==
  IF key = "__proto__"
  THEN [files EXCEPT !.proto = << entry >>]
  ELSE [files EXCEPT !.own = (key :> entry) @@ files.own]

\* Whether files[key] is truthy: own entries are objects; otherwise the
\* property is looked up along the prototype chain.
Truthy(files, key) ==
  \/ key \in Keys(files)
  \/ /\ files.proto # << >>
     /\ \/ key = "type"
        \/ key = "content" /\ files.proto[1].content # << >>
        \/ key = "executable" /\ files.proto[1].executable
  \/ key \in ObjectPrototypeKeys

\* delete files[key]: removes an own property, nothing else.
DeleteProperty(files, key) ==
  [files EXCEPT !.own = [k \in DOMAIN files.own \ {key} |-> files.own[k]]]

(***************************************************************************)
(* extractZipToMemory: the walk over the extracted tree.  A tree is a set  *)
(* of nodes [parent, name, isDir, bytes, readable]; parent is the path of  *)
(* the containing directory, readable says whether readFileSync (a file)   *)
(* or readdirSync (a directory) succeeds on it.                            *)
(***************************************************************************)
ExtractRoot == "extracted"

Node(parent, name, isDir, bytes, readable) ==
  [parent |-> parent, name |-> name, isDir |-> isDir, bytes |-> bytes,
   readable |-> readable]

\* The entry the try block builds for a file that was read.
MakeEntry(item) ==
  IF isBinary(item.name)
  THEN [type |-> "binary", content |-> Base64Encode(item.bytes),
        executable |-> shouldBeExecutable(item.name)]
  ELSE [type |-> "text", content |-> Utf8Decode(item.bytes),
        executable |-> shouldBeExecutable(item.name)]

\* catch (err) { console.warn(...) }: the file is skipped, the walk goes on.
OnReadFailure(acc, relativePath) ==
  [acc EXCEPT !.warnings = @ \cup {relativePath}]

\* basePath ? path.join(basePath, item.name) : item.name
RelativePath(basePath, name) ==
  IF basePath # "" THEN PathJoin(basePath, name) ELSE name

\* fs.existsSync(dirPath)
ExistsDir(tree, dirPath) ==
  \/ dirPath = ExtractRoot
  \/ \E n \in tree : n.isDir /\ PathJoin(n.parent, n.name) = dirPath

RECURSIVE readDirectoryRecursive(_, _, _, _), WalkItems(_, _, _, _, _)
\* The for loop over the items of one directory; acc carries the files
\* object, the warnings and whether an exception is propagating.
WalkItems(tree, items, dirPath, basePath, acc) ==
  IF items = {} \/ acc.threw THEN acc
  ELSE
    LET item == CHOOSE n \in items : TRUE
        fullPath == PathJoin(dirPath, item.name)
        relativePath == RelativePath(basePath, item.name)
        next ==
          IF item.isDir THEN readDirectoryRecursive(tree, fullPath, relativePath, acc)
          ELSE IF item.readable
          THEN [acc EXCEPT !.files = SetProperty(@, relativePath, MakeEntry(item))]
          ELSE OnReadFailure(acc, relativePath)
    IN WalkItems(tree, items \ {item}, dirPath, basePath, next)

readDirectoryRecursive(tree, dirPath, basePath, acc) ==
  IF ~ExistsDir(tree, dirPath) THEN acc
  ELSE IF \E n \in tree : n.isDir /\ PathJoin(n.parent, n.name) = dirPath /\ ~n.readable
  THEN [acc EXCEPT !.threw = TRUE]
  ELSE WalkItems(tree, {n \in tree : n.parent = dirPath}, dirPath, basePath, acc)

\* readDirectoryRecursive(extractPath) on a fresh files object.
WalkTree(tree) ==
  readDirectoryRecursive(tree, ExtractRoot, "",
                         [files |-> NewFiles, warnings |-> {}, threw |-> FALSE])

(***************************************************************************)
(* removeFiles(files, filesToRemove): returns the files object after the   *)
(* loop and the two logs (removed, not found).                             *)
(***************************************************************************)
\* Faulty variant of RemoveOne: a path that is not found is created empty.
RemoveOne_AddsMissing(st, fileToRemove) ==
  IF fileToRemove \in Keys(st.files)
  THEN [st EXCEPT !.files = DeleteProperty(@, fileToRemove),
                  !.removed = Append(@, fileToRemove)]
  ELSE [st EXCEPT !.files = SetProperty(@, fileToRemove,
                     [type |-> "text", content |-> << >>, executable |-> FALSE]),
                  !.notFound = Append(@, fileToRemove)]

\* One iteration of the loop.
RemoveOne(st, fileToRemove) ==
  IF Truthy(st.files, fileToRemove)
  THEN [st EXCEPT !.files = DeleteProperty(@, fileToRemove),
                  !.removed = Append(@, fileToRemove)]
  ELSE [st EXCEPT !.notFound = Append(@, fileToRemove)]

\* Faulty variant of RemoveLoop: the loop ends after the first path it
\* removed.
RECURSIVE RemoveLoop_FirstOnly(_, _)
RemoveLoop_FirstOnly(st, filesToRemove) ==
  IF Len(filesToRemove) = 0 THEN st
  ELSE IF Truthy(st.files, Head(filesToRemove))
       THEN RemoveOne(st, Head(filesToRemove))
       ELSE RemoveLoop_FirstOnly(RemoveOne(st, Head(filesToRemove)),
                                 Tail(filesToRemove))

\* Faulty variant of RemoveLoop: the loop ends at the first path it does not
\* find.
RECURSIVE RemoveLoop_StopsAtMissing(_, _)
RemoveLoop_StopsAtMissing(st, filesToRemove) ==
  IF Len(filesToRemove) = 0 THEN st
  ELSE IF Truthy(st.files, Head(filesToRemove))
       THEN RemoveLoop_StopsAtMissing(RemoveOne(st, Head(filesToRemove)),
                                      Tail(filesToRemove))
       ELSE RemoveOne(st, Head(filesToRemove))

\* for (const fileToRemove of filesToRemove) { ... }
RECURSIVE RemoveLoop(_, _)
RemoveLoop(st, filesToRemove) ==
  IF Len(filesToRemove) = 0 THEN st
  ELSE RemoveLoop(RemoveOne(st, Head(filesToRemove)), Tail(filesToRemove))

removeFiles(files, filesToRemove) ==
  IF Len(filesToRemove) = 0
  THEN [files |-> files, removed |-> << >>, notFound |-> << >>]
  ELSE RemoveLoop([files |-> files, removed |-> << >>, notFound |-> << >>],
                  filesToRemove)

(***************************************************************************)
(* What the generator may answer, and what a caller may configure.         *)
(***************************************************************************)
\* res.statusCode values the model draws from.
StatusCodes == {200, 204, 404}

\* The response bodies the model draws from; "corrupt" is no zip archive.
Archives == {"gradle", "odd", "corrupt"}

\* The tree extractAllTo writes below extractPath for each body.
TreeOf(archive) ==
  IF archive = "gradle" THEN
    { Node(ExtractRoot, "build.gradle", FALSE, << 112, 108 >>, TRUE),
      Node(ExtractRoot, "gradlew", FALSE, << 35, 33 >>, TRUE),
      Node(ExtractRoot, "HELP.md", FALSE, << 35, 32, 72 >>, TRUE),
      Node(ExtractRoot, "gradle", TRUE, << >>, TRUE),
      Node(PathJoin(ExtractRoot, "gradle"), "gradle-wrapper.jar", FALSE,
           << 80, 75, 3, 4 >>, TRUE) }
  ELSE IF archive = "odd" THEN
    { Node(ExtractRoot, "HELP.md", FALSE, << 35 >>, FALSE),
      Node(ExtractRoot, "run.sh", FALSE, << 35, 33 >>, TRUE),
      Node(ExtractRoot, "__proto__", FALSE, << 120 >>, TRUE) }
  ELSE {}

\* moduleConfig.generation.files.remove values the model draws from.
RemoveLists ==
  { << >>,
    << "HELP.md", "src/main/resources/application-local.yaml" >>,
    << "gradlew", "constructor" >> }

(***************************************************************************)
(* State.                                                                  *)
(***************************************************************************)
VARIABLES
  pc,           \* where each scaffold() call is suspended
  filesToRemove,\* moduleConfig.generation.files.remove of each call
  tempDir,      \* the directory mkdtempSync returned to each call
  requests,     \* how many times each call has run https.get
  dl,           \* the promise downloadSpringBootZip returned
  statusCode,   \* res.statusCode, 0 while there is no response
  res,          \* the response: none, failed, unread, flowing, ended, aborted
  body,         \* the archive the generator is sending
  received,     \* 'data' chunks the response has piped into zipFile
  zipFile,      \* the write stream: none, opening, open, finished, errored
  written,      \* chunks zipFile has flushed
  files,        \* the files object extractZipToMemory created
  ex,           \* the promise extractZipToMemory returned
  outcome,      \* the promise scaffold() returned
  warnings,     \* what each call has passed to console.warn
  steps,        \* the pipeline steps each call has run, in order
  disk,         \* the temporary directories and what they hold
  made,         \* directory names mkdtempSync has handed out
  AdmZip,       \* the module-level lazy require
  admZipInstalled, \* whether require('adm-zip') can succeed
  uncaught,     \* calls one of whose event handlers threw
  input,        \* argument of the function under test (function specs)
  output        \* its result

callVars ==
  << pc, filesToRemove, tempDir, requests, dl, statusCode, res, body, received,
     zipFile, written, files, ex, outcome, warnings, steps >>
sharedVars == << disk, made, AdmZip, admZipInstalled, uncaught >>
fnVars == << input, output >>
vars == << callVars, sharedVars, fnVars >>

DirNames == 1 .. NumInv
NoName == 0

NoFile == [exists |-> FALSE, body |-> "", chunks |-> 0]
NoDir == [exists |-> FALSE, zip |-> NoFile, extractDir |-> FALSE, tree |-> {}]
EmptyDir == [exists |-> TRUE, zip |-> NoFile, extractDir |-> FALSE, tree |-> {}]

\* A promise: its state and, once rejected, the error's message.  What the
\* promises of extractZipToMemory and scaffold resolve with is the one
\* files object of the call.
Pending == [state |-> "pending", error |-> ""]
Resolved == [state |-> "resolved", error |-> ""]
Rejected(error) == [state |-> "rejected", error |-> error]

\* resolve() and reject() of a promise that is already settled do nothing.
Settle(promise, value) == IF promise.state = "pending" THEN value ELSE promise

InitCalls ==
  /\ pc = [i \in Inv |-> "idle"]
  /\ filesToRemove = [i \in Inv |-> << >>]
  /\ tempDir = [i \in Inv |-> NoName]
  /\ requests = [i \in Inv |-> 0]
  /\ dl = [i \in Inv |-> Pending]
  /\ statusCode = [i \in Inv |-> 0]
  /\ res = [i \in Inv |-> "none"]
  /\ body = [i \in Inv |-> ""]
  /\ received = [i \in Inv |-> 0]
  /\ zipFile = [i \in Inv |-> "none"]
  /\ written = [i \in Inv |-> 0]
  /\ files = [i \in Inv |-> NewFiles]
  /\ ex = [i \in Inv |-> Pending]
  /\ outcome = [i \in Inv |-> Pending]
  /\ warnings = [i \in Inv |-> {}]
  /\ steps = [i \in Inv |-> << >>]
  /\ disk = [d \in DirNames |-> NoDir]
  /\ made = {}
  /\ AdmZip = "undefined"
  /\ uncaught = {}

Init ==
  /\ InitCalls
  /\ admZipInstalled \in BOOLEAN
  /\ input = << >>
  /\ output = << >>

ConcInit ==
  /\ InitCalls
  /\ admZipInstalled = TRUE
  /\ input = << >>
  /\ output = << >>

(***************************************************************************)
(* downloadSpringBootZip: the request, the response and the write stream.  *)
(***************************************************************************)
StatusError(code) ==
  "Spring Initializr request failed with status: " \o ToString(code)

RequestError(message) == "Failed to download Spring Boot project: " \o message

\* Faulty variant of SuccessStatus: every status below 400 is taken as success.
SuccessStatus_Below400(code) == code < 400

\* The negation of the guard res.statusCode !== 200.
SuccessStatus(code) == code = 200

\* Faulty variant of mkdtempSync: one fixed directory for every call.
mkdtempSync_Fixed(names) == 1

\* fs.mkdtempSync(prefix): a directory with a name never handed out before.
mkdtempSync(names) == CHOOSE d \in DirNames : d \notin names

\* The zipFile 'error' handler: unlinkSync(outputPath), then reject(err).
\* unlinkSync throws when the file is not there; the handler then ends
\* before reject and the exception is uncaught.
StreamErrorHandler(i, err) ==
  LET d == tempDir[i] IN
    /\ zipFile' = [zipFile EXCEPT ![i] = "errored"]
    /\ IF disk[d].exists /\ disk[d].zip.exists
       THEN /\ disk' = [disk EXCEPT ![d].zip = NoFile]
            /\ dl' = [dl EXCEPT ![i] = Settle(@, Rejected(err))]
            /\ UNCHANGED uncaught
       ELSE /\ uncaught' = uncaught \cup {i}
            /\ UNCHANGED << disk, dl >>

\* scaffold() up to its first await: the URL is built, the temporary
\* directory is made and the GET request is sent.
Start(i) ==
  /\ pc[i] = "idle" /\ \A j \in Inv : j < i => pc[j] # "idle"
  /\ DirNames \ made # {}
  /\ LET d == mkdtempSync(made) IN
       /\ tempDir' = [tempDir EXCEPT ![i] = d]
       /\ disk' = [disk EXCEPT ![d] = EmptyDir]
       /\ made' = made \cup {d}
  /\ requests' = [requests EXCEPT ![i] = @ + 1]
  /\ steps' = [steps EXCEPT ![i] = << "build", "fetch" >>]
  /\ pc' = [pc EXCEPT ![i] = "awaitDownload"]
  /\ UNCHANGED << statusCode, files, filesToRemove, dl, res, body, received, zipFile, written, ex,
                  outcome, warnings, AdmZip, admZipInstalled, uncaught, fnVars >>

\* The request's 'error' event before any response.
ReqError(i) ==
  /\ pc[i] # "idle" /\ res[i] = "none"
  /\ res' = [res EXCEPT ![i] = "failed"]
  /\ dl' = [dl EXCEPT ![i] = Settle(@, Rejected(RequestError("ECONNREFUSED")))]
  /\ UNCHANGED << statusCode, files, pc, filesToRemove, tempDir, requests, body, received, zipFile,
                  written, ex, outcome, warnings, steps, sharedVars, fnVars >>

\* Faulty variant of Response: the write stream is created before the status
\* is looked at.
Response_OpensFirst(i, code, archive) ==
  /\ pc[i] # "idle" /\ res[i] = "none"
  /\ statusCode' = [statusCode EXCEPT ![i] = code]
  /\ zipFile' = [zipFile EXCEPT ![i] = "opening"]
  /\ IF ~SuccessStatus(code)
     THEN /\ dl' = [dl EXCEPT ![i] = Settle(@, Rejected(StatusError(code)))]
          /\ res' = [res EXCEPT ![i] = "unread"]
          /\ UNCHANGED body
     ELSE /\ res' = [res EXCEPT ![i] = "flowing"]
          /\ body' = [body EXCEPT ![i] = archive]
          /\ UNCHANGED dl
  /\ UNCHANGED << files, pc, filesToRemove, tempDir, requests, received, written,
                  ex, outcome, warnings, steps, sharedVars, fnVars >>

\* The response callback of https.get.
Response(i, code, archive) ==
  /\ pc[i] # "idle" /\ res[i] = "none"
  /\ statusCode' = [statusCode EXCEPT ![i] = code]
  /\ IF ~SuccessStatus(code)
     THEN /\ dl' = [dl EXCEPT ![i] = Settle(@, Rejected(StatusError(code)))]
          /\ res' = [res EXCEPT ![i] = "unread"]
          /\ UNCHANGED << body, zipFile >>
     ELSE /\ zipFile' = [zipFile EXCEPT ![i] = "opening"]
          /\ res' = [res EXCEPT ![i] = "flowing"]
          /\ body' = [body EXCEPT ![i] = archive]
          /\ UNCHANGED dl
  /\ UNCHANGED << files, pc, filesToRemove, tempDir, requests, received, written,
                  ex, outcome, warnings, steps, sharedVars, fnVars >>

\* The write stream's open completes: the file is created empty, or the
\* open fails and 'error' is emitted.
OpenDone(i, ok) ==
  /\ zipFile[i] = "opening"
  /\ IF ok /\ disk[tempDir[i]].exists
     THEN /\ zipFile' = [zipFile EXCEPT ![i] = "open"]
          /\ disk' = [disk EXCEPT ![tempDir[i]].zip =
                        [exists |-> TRUE, body |-> body[i], chunks |-> 0]]
          /\ UNCHANGED << dl, uncaught >>
     ELSE StreamErrorHandler(i, IF disk[tempDir[i]].exists THEN "EACCES" ELSE "ENOENT")
  /\ UNCHANGED << statusCode, files, pc, filesToRemove, tempDir, requests, res, body, received,
                  written, ex, outcome, warnings, steps, made, AdmZip,
                  admZipInstalled, fnVars >>

\* A 'data' event of the response: pipe hands the chunk to zipFile, which
\* buffers it.
ResData(i) ==
  /\ res[i] = "flowing" /\ zipFile[i] \in {"opening", "open"}
  /\ received[i] < MaxChunks
  /\ received' = [received EXCEPT ![i] = @ + 1]
  /\ UNCHANGED << statusCode, files, pc, filesToRemove, tempDir, requests, dl, res, body, zipFile,
                  written, ex, outcome, warnings, steps, sharedVars, fnVars >>

\* zipFile flushes one buffered chunk to the file, or the write fails and
\* 'error' is emitted.  A file already unlinked is written without trace.
WriteChunk(i, ok) ==
  /\ zipFile[i] = "open" /\ written[i] < received[i]
  /\ IF ok
     THEN /\ written' = [written EXCEPT ![i] = @ + 1]
          /\ disk' = IF disk[tempDir[i]].exists /\ disk[tempDir[i]].zip.exists
                     THEN [disk EXCEPT ![tempDir[i]].zip.chunks = @ + 1]
                     ELSE disk
          /\ UNCHANGED << zipFile, dl, uncaught >>
     ELSE /\ StreamErrorHandler(i, "ENOSPC")
          /\ UNCHANGED written
  /\ UNCHANGED << statusCode, files, pc, filesToRemove, tempDir, requests, res, body, received,
                  ex, outcome, warnings, steps, made, AdmZip, admZipInstalled, fnVars >>

\* The response's 'end' event: pipe calls zipFile.end().
ResEnd(i) ==
  /\ res[i] = "flowing" /\ zipFile[i] \in {"opening", "open"}
  /\ received[i] = MaxChunks
  /\ res' = [res EXCEPT ![i] = "ended"]
  /\ UNCHANGED << statusCode, files, pc, filesToRemove, tempDir, requests, dl, body, received, zipFile,
                  written, ex, outcome, warnings, steps, sharedVars, fnVars >>

\* The connection is lost after the response has started.  The response
\* emits 'aborted' and 'close', which nothing listens to, and pipe does not
\* end zipFile; with a socket error the request also emits 'error'.
ResAborted(i, socketError) ==
  /\ res[i] = "flowing"
  /\ res' = [res EXCEPT ![i] = "aborted"]
  /\ dl' = IF socketError
           THEN [dl EXCEPT ![i] = Settle(@, Rejected(RequestError("ECONNRESET")))]
           ELSE dl
  /\ UNCHANGED << statusCode, files, pc, filesToRemove, tempDir, requests, body, received, zipFile,
                  written, ex, outcome, warnings, steps, sharedVars, fnVars >>

\* Faulty variant of Finish: the promise resolves at the end of the response,
\* whatever is still in the buffer of zipFile.
Finish_Early(i) ==
  /\ zipFile[i] = "open" /\ res[i] = "ended"
  /\ zipFile' = [zipFile EXCEPT ![i] = "finished"]
  /\ dl' = [dl EXCEPT ![i] = Settle(@, Resolved)]
  /\ UNCHANGED << statusCode, files, pc, filesToRemove, tempDir, requests, res, body, received,
                  written, ex, outcome, warnings, steps, sharedVars, fnVars >>

\* The zipFile 'finish' handler, once end() has been called and the buffer
\* is flushed: zipFile.close(); resolve(outputPath).
Finish(i) ==
  /\ zipFile[i] = "open" /\ res[i] = "ended" /\ written[i] = received[i]
  /\ zipFile' = [zipFile EXCEPT ![i] = "finished"]
  /\ dl' = [dl EXCEPT ![i] = Settle(@, Resolved)]
  /\ UNCHANGED << statusCode, files, pc, filesToRemove, tempDir, requests, res, body, received,
                  written, ex, outcome, warnings, steps, sharedVars, fnVars >>

(***************************************************************************)
(* extractZipToMemory on the directory state found on disk.                *)
(***************************************************************************)
AdmZipMissing ==
  "adm-zip package is required for Spring Boot project generation. Please install it with: npm install adm-zip"

ReadWarning(relativePath) == "Could not read file " \o relativePath
RemovalWarning(fileToRemove) == "File not found for removal: " \o fileToRemove
CleanupWarning == "Could not clean up temporary directory"

\* new AdmZip(zipPath) accepts the file: it is there, it is an archive and
\* all of it has been written.
ValidZip(zip) ==
  zip.exists /\ zip.body \in Archives \ {"corrupt"} /\ zip.chunks = MaxChunks

\* zip.extractAllTo(extractPath, true): entries overwrite what is there.
ExtractAllTo(tree, entries) ==
  {n \in tree : ~\E e \in entries : e.parent = n.parent /\ e.name = n.name} \cup entries

extractZipToMemory(dir, admZip, installed) ==
  IF admZip = "undefined" /\ ~installed THEN
    [AdmZip |-> admZip, dir |-> dir, files |-> NewFiles,
     promise |-> Rejected(AdmZipMissing), warns |-> {}]
  ELSE IF ~dir.zip.exists THEN
    [AdmZip |-> "loaded", dir |-> dir, files |-> NewFiles,
     promise |-> Rejected("ADM-ZIP: Invalid filename"), warns |-> {}]
  ELSE IF ~ValidZip(dir.zip) THEN
    [AdmZip |-> "loaded", dir |-> dir, files |-> NewFiles,
     promise |-> Rejected("ADM-ZIP: Invalid or unsupported zip format"), warns |-> {}]
  ELSE
    LET tree == ExtractAllTo(dir.tree, TreeOf(dir.zip.body))
        walk == WalkTree(tree)
    IN [AdmZip |-> "loaded", dir |-> [dir EXCEPT !.tree = tree],
        files |-> walk.files,
        promise |-> IF walk.threw THEN Rejected("EACCES: scandir") ELSE Resolved,
        warns |-> {ReadWarning(f) : f \in walk.warnings}]

(***************************************************************************)
(* scaffold(): the continuations after its two awaits, and the finally     *)
(* block.                                                                  *)
(***************************************************************************)
\* Faulty variant of Finally: the directory is removed at the end of the try block,
\* so only when the pipeline succeeded.
Finally_OnSuccessOnly(i, rmOk, warns, done, result) ==
  /\ disk' = IF rmOk /\ result.state = "resolved"
             THEN [disk EXCEPT ![tempDir[i]] = NoDir] ELSE disk
  /\ warnings' = [warnings EXCEPT ![i] =
                    warns \cup (IF rmOk \/ result.state # "resolved"
                                THEN {} ELSE {CleanupWarning})]
  /\ steps' = [steps EXCEPT ![i] =
                 IF result.state = "resolved" THEN Append(done, "cleanup") ELSE done]
  /\ outcome' = [outcome EXCEPT ![i] = result]
  /\ pc' = [pc EXCEPT ![i] = "settled"]

\* Faulty variant of Finally: rmSync is not wrapped in its own try/catch.
Finally_Propagates(i, rmOk, warns, done, result) ==
  /\ disk' = IF rmOk THEN [disk EXCEPT ![tempDir[i]] = NoDir] ELSE disk
  /\ warnings' = [warnings EXCEPT ![i] = warns]
  /\ steps' = [steps EXCEPT ![i] = Append(done, "cleanup")]
  /\ outcome' = [outcome EXCEPT ![i] = IF rmOk THEN result ELSE Rejected("EBUSY: rmdir")]
  /\ pc' = [pc EXCEPT ![i] = "settled"]

\* finally { try { fs.rmSync(tempDir, ...) } catch (err) { console.warn } },
\* after which the promise of scaffold() settles with the pipeline's result.
\* warns and done are the warnings and the steps as the try block left
\* them; rmOk says whether rmSync succeeds.
Finally(i, rmOk, warns, done, result) ==
  /\ disk' = IF rmOk THEN [disk EXCEPT ![tempDir[i]] = NoDir] ELSE disk
  /\ warnings' = [warnings EXCEPT ![i] =
                    warns \cup (IF rmOk THEN {} ELSE {CleanupWarning})]
  /\ steps' = [steps EXCEPT ![i] = Append(done, "cleanup")]
  /\ outcome' = [outcome EXCEPT ![i] = result]
  /\ pc' = [pc EXCEPT ![i] = "settled"]

\* mkdirSync(extractPath, { recursive: true }) and the call of
\* extractZipToMemory, which runs to its end (it awaits nothing) and returns
\* a settled promise that scaffold() then awaits.
Unpack(i) ==
  /\ LET d == tempDir[i]
         r == extractZipToMemory([disk[d] EXCEPT !.exists = TRUE, !.extractDir = TRUE],
                                 AdmZip, admZipInstalled)
     IN /\ disk' = [disk EXCEPT ![d] = r.dir]
        /\ AdmZip' = r.AdmZip
        /\ files' = [files EXCEPT ![i] = r.files]
        /\ ex' = [ex EXCEPT ![i] = r.promise]
        /\ warnings' = [warnings EXCEPT ![i] = @ \cup r.warns]
  /\ steps' = [steps EXCEPT ![i] = Append(@, "materialize")]
  /\ pc' = [pc EXCEPT ![i] = "awaitExtract"]
  /\ UNCHANGED << statusCode, filesToRemove, tempDir, requests, dl, res, body,
                  received, zipFile, written, outcome, made, admZipInstalled,
                  uncaught, fnVars >>

\* Faulty variant of DownloadFailed: the error of the download is swallowed and the
\* pipeline goes on.
DownloadFailed_Continues(i, rmOk) ==
  /\ pc[i] = "awaitDownload" /\ dl[i].state = "rejected"
  /\ Unpack(i)

\* The continuation of a rejected `await downloadSpringBootZip(...)`: the
\* error leaves the try block through finally.
DownloadFailed(i, rmOk) ==
  /\ pc[i] = "awaitDownload" /\ dl[i].state = "rejected"
  /\ Finally(i, rmOk, warnings[i], steps[i], Rejected(dl[i].error))
  /\ UNCHANGED << statusCode, files, filesToRemove, tempDir, requests, dl, res, body, received, zipFile,
                  written, ex, made, AdmZip, admZipInstalled, uncaught, fnVars >>

\* The continuation of a resolved download when mkdirSync(extractPath)
\* throws.
MkdirFailed(i, rmOk) ==
  /\ pc[i] = "awaitDownload" /\ dl[i].state = "resolved"
  /\ Finally(i, rmOk, warnings[i], steps[i], Rejected("ENOSPC: mkdir"))
  /\ UNCHANGED << statusCode, files, filesToRemove, tempDir, requests, dl, res, body, received, zipFile,
                  written, ex, made, AdmZip, admZipInstalled, uncaught, fnVars >>

\* The continuation of a resolved download.
Materialize(i) ==
  /\ pc[i] = "awaitDownload" /\ dl[i].state = "resolved"
  /\ Unpack(i)

\* The continuation of a rejected `await extractZipToMemory(...)`.
ExtractFailed(i, rmOk) ==
  /\ pc[i] = "awaitExtract" /\ ex[i].state = "rejected"
  /\ Finally(i, rmOk, warnings[i], steps[i], Rejected(ex[i].error))
  /\ UNCHANGED << statusCode, files, filesToRemove, tempDir, requests, dl, res, body, received, zipFile,
                  written, ex, made, AdmZip, admZipInstalled, uncaught, fnVars >>

\* The continuation of a resolved `await extractZipToMemory(...)`: the
\* removal list is read from moduleConfig, removeFiles runs, the files
\* object is returned through finally.
FilterAndReturn(i, remove, rmOk) ==
  /\ pc[i] = "awaitExtract" /\ ex[i].state = "resolved"
  /\ filesToRemove' = [filesToRemove EXCEPT ![i] = remove]
  /\ LET r == removeFiles(files[i], remove) IN
       /\ files' = [files EXCEPT ![i] = r.files]
       /\ Finally(i, rmOk,
                  warnings[i] \cup {RemovalWarning(r.notFound[k]) : k \in DOMAIN r.notFound},
                  Append(steps[i], "filter"),
                  Resolved)
  /\ UNCHANGED << statusCode, tempDir, requests, dl, res, body, received, zipFile,
                  written, ex, made, AdmZip, admZipInstalled, uncaught, fnVars >>

(***************************************************************************)
(* Spec: one call of scaffold() with every event and every local I/O       *)
(* failure the environment can produce.                                    *)
(***************************************************************************)
Next ==
  \E i \in {1} :
    \/ Start(i)
    \/ ReqError(i)
    \/ \E code \in StatusCodes, archive \in Archives : Response(i, code, archive)
    \/ \E ok \in BOOLEAN : OpenDone(i, ok)
    \/ ResData(i)
    \/ \E ok \in BOOLEAN : WriteChunk(i, ok)
    \/ ResEnd(i)
    \/ \E socketError \in BOOLEAN : ResAborted(i, socketError)
    \/ Finish(i)
    \/ \E rmOk \in BOOLEAN : DownloadFailed(i, rmOk)
    \/ \E rmOk \in BOOLEAN : MkdirFailed(i, rmOk)
    \/ Materialize(i)
    \/ \E rmOk \in BOOLEAN : ExtractFailed(i, rmOk)
    \/ \E remove \in RemoveLists, rmOk \in BOOLEAN : FilterAndReturn(i, remove, rmOk)

Spec == Init /\ [][Next]_vars

\* The same with the scheduling of the event loop: a handler or continuation
\* that is ready runs.
FairSpec == Spec /\ WF_vars(Next)

(***************************************************************************)
(* ConcSpec: NumInv calls of scaffold() whose events interleave; local     *)
(* file operations succeed.                                                *)
(***************************************************************************)
ConcNext ==
  \E i \in Inv :
    \/ Start(i)
    \/ ReqError(i)
    \/ \E code \in StatusCodes, archive \in Archives : Response(i, code, archive)
    \/ OpenDone(i, TRUE)
    \/ ResData(i)
    \/ WriteChunk(i, TRUE)
    \/ ResEnd(i)
    \/ Finish(i)
    \/ DownloadFailed(i, TRUE)
    \/ Materialize(i)
    \/ ExtractFailed(i, TRUE)
    \/ \E remove \in RemoveLists : FilterAndReturn(i, remove, TRUE)

ConcSpec == ConcInit /\ [][ConcNext]_vars

(***************************************************************************)
(* Claims about scaffold() and downloadSpringBootZip.                      *)
(***************************************************************************)
LastStep(i) == steps[i][Len(steps[i])]

\* What the try block of call i produced, whatever finally did afterwards.
Primary(i) ==
  IF dl[i].state = "rejected" THEN Rejected(dl[i].error)
  ELSE IF ex[i].state = "rejected" THEN Rejected(ex[i].error)
  ELSE IF ex[i].state = "resolved" THEN Resolved
  ELSE Rejected("ENOSPC: mkdir")

\* The files object a call returns for the body it was sent and the removal
\* list it was given, computed from those alone.
FilesOf(archive, remove) == removeFiles(WalkTree(TreeOf(archive)).files, remove).files

\* C1: once the promise of scaffold() has settled, with a result or with
\* the error of the fetch, the unpacking or the removal step, rmSync has run
\* on the call's temporary directory as the last step, and the directory is
\* gone unless rmSync failed (which is logged).
C1_CleanupBeforeSettle ==
  \A i \in Inv :
    pc[i] = "settled" =>
      /\ outcome[i].state # "pending"
      /\ LastStep(i) = "cleanup"
      /\ disk[tempDir[i]].exists => CleanupWarning \in warnings[i]

\* A call whose unpacking failed has settled and its directory is removed.
C1_Witness ==
  \E i \in Inv :
    /\ pc[i] = "settled" /\ outcome[i].state = "rejected"
    /\ steps[i] = << "build", "fetch", "materialize", "cleanup" >>
    /\ ~disk[tempDir[i]].exists

\* C2: every download that has started eventually resolves or rejects,
\* whatever the network and the write stream do.
C2_DownloadSettles ==
  \A i \in Inv : (pc[i] = "awaitDownload") ~> (dl[i].state # "pending")

\* C3: a failure of the write stream, or the loss of the connection after
\* the response has started, rejects the download, and at the moment of the
\* rejection the destination file is not there.
C3_StreamFailureRejectsClean ==
  [][\A i \in Inv :
       /\ (zipFile[i] # "errored" /\ zipFile'[i] = "errored")
            => dl'[i].state = "rejected"
       /\ (dl[i].state = "pending" /\ dl'[i].state = "rejected"
             /\ res'[i] \in {"flowing", "ended", "aborted"})
            => ~disk'[tempDir[i]].zip.exists]_vars

\* C4: a response whose status is not 200 rejects the download with the
\* error that carries that status, nothing is written and no second request
\* is made; scaffold() fails with that error.
C4_NonSuccessStatusIsFatal ==
  \A i \in Inv :
    /\ requests[i] = (IF pc[i] = "idle" THEN 0 ELSE 1)
    /\ statusCode[i] \notin {0, 200} =>
         /\ dl[i] = Rejected(StatusError(statusCode[i]))
         /\ zipFile[i] = "none" /\ ~disk[tempDir[i]].zip.exists
         /\ pc[i] = "settled" => outcome[i] = Rejected(StatusError(statusCode[i]))

\* A call that got 204 (a 2xx status other than 200) has failed with it.
C4_Witness ==
  \E i \in Inv :
    /\ statusCode[i] = 204 /\ pc[i] = "settled"
    /\ outcome[i] = Rejected("Spring Initializr request failed with status: 204")

\* C5: the outcome of scaffold() is the outcome of its try block, also when
\* rmSync failed: the same files object or the same error, never the error
\* of the cleanup, which is only logged.
C5_CleanupNeverMasks ==
  \A i \in Inv :
    pc[i] = "settled" =>
      /\ outcome[i] = Primary(i)
      /\ outcome[i].state = "resolved" => files[i] = FilesOf(body[i], filesToRemove[i])
      /\ disk[tempDir[i]].exists => CleanupWarning \in warnings[i]

\* rmSync failed after the unpacking had failed: the unpacking's error is
\* the outcome.
C5_Witness ==
  \E i \in Inv :
    /\ pc[i] = "settled" /\ CleanupWarning \in warnings[i]
    /\ ex[i].state = "rejected" /\ outcome[i] = Rejected(ex[i].error)

\* C6: the steps of one call run in the order build, fetch, materialize,
\* filter; materialize runs only after the download resolved, filter only
\* after the unpacking resolved; after a failed step only the cleanup runs
\* and scaffold() fails with that step's error.
C6_StrictPipelineOrder ==
  \A i \in Inv :
    /\ steps[i] \in { << >>, << "build", "fetch" >>,
                      << "build", "fetch", "cleanup" >>,
                      << "build", "fetch", "materialize" >>,
                      << "build", "fetch", "materialize", "cleanup" >>,
                      << "build", "fetch", "materialize", "filter", "cleanup" >> }
    /\ (\E k \in DOMAIN steps[i] : steps[i][k] = "materialize") => dl[i].state = "resolved"
    /\ (\E k \in DOMAIN steps[i] : steps[i][k] = "filter") => ex[i].state = "resolved"
    /\ (pc[i] = "settled" /\ dl[i].state = "rejected") =>
         /\ steps[i] = << "build", "fetch", "cleanup" >>
         /\ outcome[i] = Rejected(dl[i].error)
    /\ (pc[i] = "settled" /\ ex[i].state = "rejected") =>
         /\ steps[i] = << "build", "fetch", "materialize", "cleanup" >>
         /\ outcome[i] = Rejected(ex[i].error)
    /\ outcome[i].state = "resolved" =>
         steps[i] = << "build", "fetch", "materialize", "filter", "cleanup" >>

\* A call has failed at the fetch and has run nothing but the cleanup after.
C6_Witness ==
  \E i \in Inv :
    /\ pc[i] = "settled" /\ dl[i].state = "rejected"
    /\ steps[i] = << "build", "fetch", "cleanup" >>

\* What call i settles with when it runs alone, from its own response and
\* removal list.
AloneOutcome(i) ==
  IF res[i] = "failed" THEN Rejected(RequestError("ECONNREFUSED"))
  ELSE IF statusCode[i] # 200 THEN Rejected(StatusError(statusCode[i]))
  ELSE IF body[i] = "corrupt" THEN Rejected("ADM-ZIP: Invalid or unsupported zip format")
  ELSE Resolved

FileNode(parent, name, readable) ==
  Node(parent, name, FALSE,
       IF name = "gradlew" THEN << 35, 33 >>
       ELSE IF name = "app.jar" THEN << 80, 75, 3, 4 >>
       ELSE IF name = "__proto__" THEN << 120 >>
       ELSE << 35, 32 >>,
       readable)

\* The sets of files a directory of the family may hold.
Shapes == 0 .. 4

ShapeFiles(shape, parent) ==
  IF shape = 1 THEN {FileNode(parent, "gradlew", TRUE), FileNode(parent, "app.jar", TRUE)}
  ELSE IF shape = 2 THEN {FileNode(parent, "gradlew", FALSE), FileNode(parent, "app.jar", TRUE)}
  ELSE IF shape = 3 THEN {FileNode(parent, "__proto__", TRUE), FileNode(parent, "README.md", TRUE)}
  ELSE IF shape = 4 THEN {FileNode(parent, "README.md", FALSE)}
  ELSE {}

RECURSIVE DirPath(_)
DirPath(level) == IF level = 0 THEN ExtractRoot ELSE PathJoin(DirPath(level - 1), "d")

\* The tree of the given depth whose directory at level k holds
\* ShapeFiles(shapes[k + 1]); locked > 0 makes the directory at that level
\* unreadable.
BuildTree(depth, shapes, locked) ==
  UNION {ShapeFiles(shapes[k + 1], DirPath(k)) : k \in 0 .. depth}
  \cup {Node(DirPath(k - 1), "d", TRUE, << >>, k # locked) : k \in 1 .. depth}

Trees ==
  UNION {{BuildTree(depth, shapes, locked) :
            shapes \in [1 .. depth + 1 -> Shapes], locked \in 0 .. depth} :
         depth \in 0 .. MaxDepth}

FnInit ==
  /\ InitCalls
  /\ admZipInstalled = TRUE
  /\ output = [done |-> FALSE]

WalkInit == FnInit /\ input \in Trees

\* readDirectoryRecursive(extractPath) on the tree.
WalkApply ==
  /\ ~output.done
  /\ output' = [done |-> TRUE, result |-> WalkTree(input)]
  /\ UNCHANGED << input, callVars, sharedVars >>

WalkNext == WalkApply

WalkSpec == WalkInit /\ [][WalkNext]_vars

\* The path of a node relative to the unpack root, cut out of its full path.
RelativeToRoot(n) ==
  LET full == PathJoin(n.parent, n.name)
  IN SubSeq(full, Len(ExtractRoot) + 2, Len(full))

\* C8: after a walk that did not fail, the keys of the files object are
\* exactly the root-relative paths of the files whose read succeeded, and
\* the warnings are exactly the paths of the files whose read failed;
\* directories are no keys.
C8_KeysAreReadableLeaves ==
  (output.done /\ ~output.result.threw) =>
    /\ Keys(output.result.files) =
         {RelativeToRoot(n) : n \in {m \in input : ~m.isDir /\ m.readable}}
    /\ output.result.warnings =
         {RelativeToRoot(n) : n \in {m \in input : ~m.isDir /\ ~m.readable}}

(***************************************************************************)
(* RemoveSpec: removeFiles applied to every files object and removal list  *)
(* of a bounded family.                                                    *)
(***************************************************************************)
\* Names of files the walk may have stored.
KeyPool == {"build.gradle", "HELP.md", "constructor"}

\* Paths a removal list may name.
PathPool ==
  {"build.gradle", "HELP.md", "constructor", "content",
   "src/main/resources/application-local.yaml"}

\* The files object the walk builds from files with the names in keys, plus
\* a file named __proto__ when withProto.
FilesWith(keys, withProto) ==
  WalkTree({FileNode(ExtractRoot, k, TRUE) : k \in keys}
           \cup (IF withProto THEN {FileNode(ExtractRoot, "__proto__", TRUE)} ELSE {})).files

SeqsUpTo(S, n) == UNION {[1 .. k -> S] : k \in 0 .. n}

RemoveInit ==
  /\ FnInit
  /\ input \in {[files |-> FilesWith(keys, withProto), filesToRemove |-> list] :
                  keys \in SUBSET KeyPool, withProto \in BOOLEAN,
                  list \in SeqsUpTo(PathPool, MaxRemove)}

RemoveApply ==
  /\ ~output.done
  /\ output' = [done |-> TRUE, result |-> removeFiles(input.files, input.filesToRemove)]
  /\ UNCHANGED << input, callVars, sharedVars >>

RemoveNext == RemoveApply

RemoveSpec == RemoveInit /\ [][RemoveNext]_vars

Range(seq) == {seq[k] : k \in DOMAIN seq}

\* C9: the files object removeFiles returns has the keys of the one it was
\* given minus the paths of the list, every key that is left has the entry
\* it had, and none is new.
C9_RemovesExactlyRequested ==
  output.done =>
    /\ Keys(output.result.files) = Keys(input.files) \ Range(input.filesToRemove)
    /\ \A k \in Keys(output.result.files) :
         k \in Keys(input.files) /\ output.result.files.own[k] = input.files.own[k]

\* A list with a path that is a key and a path that is none has been
\* applied.
C9_Witness ==
  /\ output.done
  /\ Keys(output.result.files) # Keys(input.files)
  /\ Keys(output.result.files) # {}
  /\ Range(input.filesToRemove) \ Keys(input.files) # {}

\* C10: removeFiles warns about every path of the list that is no key of
\* the files object, and that key is still absent afterwards.
C10_AbsentPathWarns ==
  output.done =>
    \A p \in Range(input.filesToRemove) \ Keys(input.files) :
      /\ p \in Range(output.result.notFound)
      /\ p \notin Keys(output.result.files)

(***************************************************************************)
(* RepeatSpec: removeFiles applied to a files object and a list, then      *)
(* applied again with the same list to the object it returned (the code    *)
(* returns the object it was given, changed in place), and applied to the  *)
(* same files object with the list in another order.                       *)
(***************************************************************************)
Perms(list) ==
  {[k \in 1 .. Len(list) |-> list[f[k]]] :
     f \in {g \in [1 .. Len(list) -> 1 .. Len(list)] :
              \A a, b \in 1 .. Len(list) : g[a] = g[b] => a = b}}

\* removeFiles(removeFiles(files, list), list)
RemoveAgain ==
  /\ output.done
  /\ "again" \notin DOMAIN output
  /\ output' = output @@
       [again |-> removeFiles(output.result.files, input.filesToRemove)]
  /\ UNCHANGED << input, callVars, sharedVars >>

\* removeFiles(files, a permutation of list)
RemovePermuted ==
  /\ output.done
  /\ "permuted" \notin DOMAIN output
  /\ \E order \in Perms(input.filesToRemove) :
       output' = output @@
         [permuted |-> removeFiles(input.files, order), order |-> order]
  /\ UNCHANGED << input, callVars, sharedVars >>

RepeatNext == RemoveApply \/ RemoveAgain \/ RemovePermuted

RepeatSpec == RemoveInit /\ [][RepeatNext]_vars

\* C11: applying removeFiles a second time with the same list to the files
\* object the first application returned gives that same files object.
C11_RemoveIsIdempotent ==
  "again" \in DOMAIN output => output.again.files = output.result.files

\* The second application ran after a first one that removed a key and left
\* another.
C11_Witness ==
  /\ "again" \in DOMAIN output
  /\ Keys(output.result.files) # Keys(input.files)
  /\ Keys(output.result.files) # {}
  /\ Len(output.again.notFound) > 0

\* C12: removeFiles gives the same files object for a list and for every
\* permutation of it, repeated paths included.
C12_RemoveIgnoresOrder ==
  "permuted" \in DOMAIN output => output.permuted.files = output.result.files

\* A list of a present and an absent path has been applied in both orders.
C12_Witness ==
  /\ "permuted" \in DOMAIN output
  /\ output.order # input.filesToRemove
  /\ Keys(output.result.files) # Keys(input.files)
  /\ Len(output.result.notFound) > 0

(***************************************************************************)
(* ClassifySpec: the walk applied to trees that hold one file name in two  *)
(* directories, with one of two contents, for a pool of names.             *)
(***************************************************************************)
NamePool ==
  {"app.jar", "APP.JAR", "README.md", "build.gradle", "gradlew", "gradlew.bat",
   "Gradlew", "run.sh", "jar", "a.jar.txt", "App.class", "logo.png",
   "lib.tar.gz", "run.sh.jar", "gradlew.txt", "sh", "a\nb.sh", "x.jar\n"}

ContentPool == {<< >>, << 35, 33, 10 >>}

\* A chain of directories down to level deep, with a file of the given name
\* and bytes in the directories at levels upper and deep.
NamedTree(name, upper, deep, bytes) ==
  {Node(DirPath(k - 1), "d", TRUE, << >>, TRUE) : k \in 1 .. deep}
  \cup {Node(DirPath(upper), name, FALSE, bytes, TRUE),
        Node(DirPath(deep), name, FALSE, bytes, TRUE)}

ClassifyInit ==
  /\ FnInit
  /\ input \in {NamedTree(name, upper, deep, bytes) :
                  name \in NamePool, upper \in 0 .. MaxDepth,
                  deep \in 0 .. MaxDepth, bytes \in ContentPool}

ClassifyNext == WalkApply

ClassifySpec == ClassifyInit /\ [][ClassifyNext]_vars

\* Position of the last occurrence of the character c in s, 0 if none.
LastIndexOf(s, c) ==
  LET hits == {k \in 1 .. Len(s) : CharAt(s, k) = c}
  IN IF hits = {} THEN 0 ELSE CHOOSE k \in hits : \A j \in hits : j <= k

\* The last segment of a path.
BareName(path) == SubSeq(path, LastIndexOf(path, "/") + 1, Len(path))

\* What follows the last dot of a name, in lower case; "" without a dot.
Extension(name) ==
  IF LastIndexOf(name, ".") = 0 THEN ""
  ELSE ToLower(SubSeq(name, LastIndexOf(name, ".") + 1, Len(name)))

Denylist ==
  {"jar", "class", "png", "jpg", "jpeg", "gif", "ico", "zip", "gz", "tar",
   "war", "ear"}

\* C13: every entry of the files object is binary or text, and it is binary
\* exactly when the extension of its bare name is on the denylist; the
\* directory and the contents play no part.
C13_KindByExtension ==
  (output.done /\ ~output.result.threw) =>
    \A k \in Keys(output.result.files) :
      LET e == output.result.files.own[k]
      IN /\ e.type \in {"binary", "text"}
         /\ e.type = "binary" <=> Extension(BareName(k)) \in Denylist

\* app.jar has been recorded as binary at the root and in a subdirectory.
C13_Witness ==
  /\ output.done
  /\ {"app.jar", "d/d/app.jar"} \subseteq Keys(output.result.files)
  /\ output.result.files.own["d/d/app.jar"].type = "binary"

\* C14: an entry is executable exactly when its bare name is gradlew or
\* gradlew.bat or ends in .sh (letter case aside), whatever its directory
\* and its kind.
C14_ExecutableByName ==
  (output.done /\ ~output.result.threw) =>
    \A k \in Keys(output.result.files) :
      LET lower == ToLower(BareName(k))
      IN output.result.files.own[k].executable <=>
           \/ lower \in {"gradlew", "gradlew.bat"}
           \/ EndsWith(lower, ".sh")

(***************************************************************************)
(* The request: scaffold() derives the parameters from its context and     *)
(* configuration, buildSpringInitializrUrl turns them into the URL.  An    *)
(* optional value is << >> when it is undefined and << s >> when it is the *)
(* string s.                                                               *)
(***************************************************************************)
Undefined == << >>

Digits == "0123456789"

AlnumChars ==
  {CharAt(UpperChars, k) : k \in 1 .. 26} \cup {CharAt(LowerChars, k) : k \in 1 .. 26}
  \cup {CharAt(Digits, k) : k \in 1 .. 10}

\* s.replace(/[^a-zA-Z0-9]/g, '')
RECURSIVE StripNonAlnum(_)
StripNonAlnum(s) ==
  IF Len(s) = 0 THEN ""
  ELSE (IF Head(s) \in AlnumChars THEN Head(s) ELSE "") \o StripNonAlnum(Tail(s))

\* s.split('.')
RECURSIVE Split(_, _)
Split(s, sep) ==
  LET hits == {k \in 1 .. Len(s) : CharAt(s, k) = sep}
  IN IF hits = {} THEN << s >>
     ELSE LET first == CHOOSE k \in hits : \A j \in hits : k <= j
          IN << SubSeq(s, 1, first - 1) >> \o Split(SubSeq(s, first + 1, Len(s)), sep)

\* [...parts].reverse()
Reverse(parts) == [k \in 1 .. Len(parts) |-> parts[Len(parts) + 1 - k]]

\* parts.join(sep)
RECURSIVE Join(_, _)
Join(parts, sep) ==
  IF Len(parts) = 0 THEN ""
  ELSE IF Len(parts) = 1 THEN parts[1]
  ELSE parts[1] \o sep \o Join(Tail(parts), sep)

\* Faulty variant of ReversedDomain: the labels keep their order.
ReversedDomain_Forward(domain) ==
  Join([k \in 1 .. Len(Split(domain, ".")) |-> StripNonAlnum(Split(domain, ".")[k])], ".")

\* domainParts = domain.split('.').map(strip); [...domainParts].reverse().join('.')
ReversedDomain(domain) ==
  LET domainParts ==
        [k \in 1 .. Len(Split(domain, ".")) |-> StripNonAlnum(Split(domain, ".")[k])]
  IN Join(Reverse(domainParts), ".")

\* Whether an optional string is truthy: neither undefined nor ''.
TruthyValue(v) == v # Undefined /\ v[1] # ""

\* a || b
OrElse(a, b) == IF TruthyValue(a) THEN a ELSE b

\* The options scaffold() passes to buildSpringInitializrUrl.
ScaffoldOptions(domain, name, fieldValues, baseTemplateConfig) ==
  LET groupId == ReversedDomain(domain)
      moduleName == StripNonAlnum(name)
      buildTool == OrElse(fieldValues.buildTool,
                          OrElse(baseTemplateConfig.build, << "gradle" >>))
  IN [groupId |-> << groupId >>,
      artifactId |-> << name \o "-api" >>,
      packageName |-> << groupId \o "." \o moduleName >>,
      type |-> << IF buildTool = << "maven" >> THEN "maven-project" ELSE "gradle-project" >>,
      javaVersion |-> OrElse(fieldValues.javaVersion,
                             OrElse(baseTemplateConfig.javaVersion, << "21" >>)),
      platformVersion |-> OrElse(fieldValues.springBootVersion,
                                 OrElse(baseTemplateConfig.platformVersion, << "3.5.3" >>)),
      packaging |-> OrElse(fieldValues.packaging,
                           OrElse(baseTemplateConfig.packaging, << "jar" >>)),
      dependencies |-> OrElse(fieldValues.dependencies,
                              OrElse(baseTemplateConfig.dependencies, << "web,lombok" >>)),
      description |-> << "Spring Boot project for " \o name >>]

\* A destructuring default: it applies to undefined only.
Default(v, d) == IF v = Undefined THEN d ELSE v[1]

\* String(v) as URLSearchParams applies it to a property value.
ToStringValue(v) == IF v = Undefined THEN "undefined" ELSE v[1]

\* The name/value pairs of the URLSearchParams, in the order of the literal.
UrlParams(options) ==
  LET artifactId == ToStringValue(options.artifactId)
  IN << << "type", Default(options.type, "gradle-project") >>,
        << "language", "java" >>,
        << "platformVersion", Default(options.platformVersion, "3.5.3") >>,
        << "packaging", Default(options.packaging, "jar") >>,
        << "javaVersion", Default(options.javaVersion, "21") >>,
        << "groupId", ToStringValue(options.groupId) >>,
        << "artifactId", artifactId >>,
        << "name", artifactId >>,
        << "description", Default(options.description, "Spring Boot project") >>,
        << "packageName", ToStringValue(options.packageName) >>,
        << "dependencies", Default(options.dependencies, "web") >> >>

\* Characters application/x-www-form-urlencoded leaves as they are.
UrlUnreserved == AlnumChars \cup {"*", "-", ".", "_"}

\* The percent codes of the other ASCII characters a value is made of here.
PercentCode ==
  ("\t" :> "%09") @@ ("\n" :> "%0A") @@ ("\r" :> "%0D") @@
  ("!" :> "%21") @@ ("\"" :> "%22") @@ ("#" :> "%23") @@ ("$" :> "%24") @@
  ("%" :> "%25") @@ ("&" :> "%26") @@ ("'" :> "%27") @@ ("(" :> "%28") @@
  (")" :> "%29") @@ ("+" :> "%2B") @@ ("," :> "%2C") @@ ("/" :> "%2F") @@
  (":" :> "%3A") @@ (";" :> "%3B") @@ ("<" :> "%3C") @@ ("=" :> "%3D") @@
  (">" :> "%3E") @@ ("?" :> "%3F") @@ ("@" :> "%40") @@ ("[" :> "%5B") @@
  ("]" :> "%5D") @@ ("^" :> "%5E") @@
  ("{" :> "%7B") @@ ("|" :> "%7C") @@ ("}" :> "%7D") @@ ("~" :> "%7E")

\* Faulty variant of EncodeChar: the plus sign is left as it is.
EncodeChar_PlusRaw(c) ==
  IF c \in UrlUnreserved \cup {"+"} THEN c
  ELSE IF c = " " THEN "+"
  ELSE PercentCode[c]

\* One character serialised by URLSearchParams.prototype.toString.
EncodeChar(c) ==
  IF c \in UrlUnreserved THEN c
  ELSE IF c = " " THEN "+"
  ELSE PercentCode[c]

RECURSIVE UrlEncode(_)
UrlEncode(s) == IF Len(s) = 0 THEN "" ELSE EncodeChar(Head(s)) \o UrlEncode(Tail(s))

\* params.toString()
Serialize(params) ==
  Join([k \in 1 .. Len(params) |-> UrlEncode(params[k][1]) \o "=" \o UrlEncode(params[k][2])],
       "&")

buildSpringInitializrUrl(options) ==
  "https://start.spring.io/starter.zip?" \o Serialize(UrlParams(options))

(***************************************************************************)
(* RequestSpec: the first part of scaffold(), from the context and the     *)
(* configuration to the URL, for a family of domains and module names and  *)
(* a family of field values and base-template values.                      *)
(***************************************************************************)
DomainPool ==
  {"example.com", "my-app.example.co.uk", "a..b", "x_1.io", "localhost", ""}

ModuleNames == {"orders", "order-svc", "order svc_2", "a.b"}

\* What a caller may put into an optional setting: nothing, the empty
\* string, or a value.
Settings(values) == {Undefined, << "" >>} \cup {<< v >> : v \in values}

FieldValuesPool ==
  [buildTool : Settings({"maven", "gradle"}),
   javaVersion : Settings({"17"}),
   springBootVersion : Settings({"3.4.0"}),
   packaging : Settings({"war"}),
   dependencies : Settings({"web,data-jpa"})]

BaseConfigPool ==
  [build : {Undefined, << "maven" >>},
   javaVersion : {Undefined, << "11" >>},
   platformVersion : {Undefined, << "3.3.1" >>},
   packaging : {Undefined, << "war" >>},
   dependencies : {Undefined, << "web" >>}]

NoFieldValues ==
  [buildTool |-> Undefined, javaVersion |-> Undefined, springBootVersion |-> Undefined,
   packaging |-> Undefined, dependencies |-> Undefined]

NoBaseConfig ==
  [build |-> Undefined, javaVersion |-> Undefined, platformVersion |-> Undefined,
   packaging |-> Undefined, dependencies |-> Undefined]

RequestInit ==
  /\ FnInit
  /\ input \in
       {[domain |-> d, name |-> n, fieldValues |-> NoFieldValues,
         baseTemplateConfig |-> NoBaseConfig] : d \in DomainPool, n \in ModuleNames}
       \cup
       {[domain |-> "example.com", name |-> "orders", fieldValues |-> f,
         baseTemplateConfig |-> b] : f \in FieldValuesPool, b \in BaseConfigPool}

\* scaffold() up to the call of downloadSpringBootZip.
BuildRequest ==
  /\ ~output.done
  /\ LET options == ScaffoldOptions(input.domain, input.name, input.fieldValues,
                                    input.baseTemplateConfig)
     IN output' = [done |-> TRUE, options |-> options, params |-> UrlParams(options),
                   url |-> buildSpringInitializrUrl(options)]
  /\ UNCHANGED << input, callVars, sharedVars >>

RequestNext == BuildRequest

RequestSpec == RequestInit /\ [][RequestNext]_vars

\* The value of the query parameter of the given name.
ParamValue(params, key) ==
  params[CHOOSE k \in 1 .. Len(params) : params[k][1] = key][2]

\* The field value if there is one, else the base-template value if there
\* is one, else the default.
FirstSupplied(field, base, default) ==
  IF field # Undefined THEN field[1]
  ELSE IF base # Undefined THEN base[1]
  ELSE default

\* C15: each of Java version, platform version, packaging, dependencies and
\* build tool that scaffold() sends is the field value when there is one,
\* else the base-template value when there is one, else the default; the
\* type is maven-project exactly when that build tool is maven.
C15_DefaultsResolution ==
  output.done =>
    LET f == input.fieldValues
        b == input.baseTemplateConfig
    IN /\ ParamValue(output.params, "javaVersion") =
            FirstSupplied(f.javaVersion, b.javaVersion, "21")
       /\ ParamValue(output.params, "platformVersion") =
            FirstSupplied(f.springBootVersion, b.platformVersion, "3.5.3")
       /\ ParamValue(output.params, "packaging") =
            FirstSupplied(f.packaging, b.packaging, "jar")
       /\ ParamValue(output.params, "dependencies") =
            FirstSupplied(f.dependencies, b.dependencies, "web,lombok")
       /\ ParamValue(output.params, "type") =
            (IF FirstSupplied(f.buildTool, b.build, "gradle") = "maven"
             THEN "maven-project" ELSE "gradle-project")

\* s without its characters that are no letters or digits.
RECURSIVE KeepAlnum(_)
KeepAlnum(s) ==
  IF Len(s) = 0 THEN ""
  ELSE KeepAlnum(SubSeq(s, 1, Len(s) - 1))
       \o (IF CharAt(s, Len(s)) \in AlnumChars THEN CharAt(s, Len(s)) ELSE "")

CharsOf(s) == {CharAt(s, k) : k \in 1 .. Len(s)}

\* C20: groupId is the labels of the domain in reversed order, each without
\* its characters that are no letters or digits; packageName is groupId,
\* a dot and the module name without such characters; artifactId and name
\* are the module name as it is followed by -api; groupId and packageName
\* hold letters, digits and dots only.
C20_IdentityDerivation ==
  output.done =>
    LET labels == Split(input.domain, ".")
        groupId == ParamValue(output.params, "groupId")
        packageName == ParamValue(output.params, "packageName")
        parts == Split(groupId, ".")
    IN /\ Len(parts) = Len(labels)
       /\ \A k \in 1 .. Len(labels) : parts[k] = KeepAlnum(labels[Len(labels) + 1 - k])
       /\ packageName = groupId \o "." \o KeepAlnum(input.name)
       /\ ParamValue(output.params, "artifactId") = input.name \o "-api"
       /\ ParamValue(output.params, "name") = input.name \o "-api"
       /\ CharsOf(groupId) \cup CharsOf(packageName) \subseteq AlnumChars \cup {"."}

\* The parameters have been derived from a domain of four labels, one with
\* a hyphen, and a module name with a space and an underscore.
C20_Witness ==
  /\ output.done
  /\ input.domain = "my-app.example.co.uk"
  /\ input.name = "order svc_2"
  /\ ParamValue(output.params, "groupId") = "uk.co.example.myapp"
  /\ ParamValue(output.params, "packageName") = "uk.co.example.myapp.ordersvc2"

(***************************************************************************)
(* BuilderSpec: buildSpringInitializrUrl applied to two sets of options    *)
(* that are one set with at most one field replaced each.                  *)
(***************************************************************************)
OptionNames ==
  {"groupId", "artifactId", "packageName", "type", "javaVersion", "platformVersion",
   "packaging", "dependencies", "description"}

BaseOptions ==
  [groupId |-> << "com.example" >>, artifactId |-> << "orders-api" >>,
   packageName |-> << "com.example.orders" >>, type |-> << "gradle-project" >>,
   javaVersion |-> << "21" >>, platformVersion |-> << "3.5.3" >>,
   packaging |-> << "jar" >>, dependencies |-> << "web" >>,
   description |-> << "Spring Boot project" >>]

ValuePool ==
  {"a b", "a+b", "a%20b", "a%2Bb", "x&type=maven-project", "", "undefined", "Jar"}

OptionSets ==
  {[BaseOptions EXCEPT ![f] = v] :
     f \in OptionNames, v \in {Undefined} \cup {<< x >> : x \in ValuePool}}

BuilderInit ==
  /\ FnInit
  /\ input \in [a : OptionSets, b : OptionSets]

BuildBoth ==
  /\ ~output.done
  /\ output' = [done |-> TRUE, a |-> buildSpringInitializrUrl(input.a),
                b |-> buildSpringInitializrUrl(input.b)]
  /\ UNCHANGED << input, callVars, sharedVars >>

BuilderNext == BuildBoth

BuilderSpec == BuilderInit /\ [][BuilderNext]_vars

\* Every field of the options is there.
Complete(options) == \A f \in OptionNames : options[f] # Undefined

\* The keys of the query of a URL, in their order.
QueryKeys(url) ==
  LET query == SubSeq(url, LastIndexOf(url, "?") + 1, Len(url))
      pairs == Split(query, "&")
  IN [k \in 1 .. Len(pairs) |-> Split(pairs[k], "=")[1]]

FixedKeys ==
  << "type", "language", "platformVersion", "packaging", "javaVersion", "groupId",
     "artifactId", "name", "description", "packageName", "dependencies" >>

\* C16: for two complete sets of options the URLs are equal exactly when
\* the options are, and the query keys of each URL are the fixed keys in
\* their fixed order.
C16_UrlIsInjective ==
  (output.done /\ Complete(input.a) /\ Complete(input.b)) =>
    /\ (input.a = input.b) <=> (output.a = output.b)
    /\ QueryKeys(output.a) = FixedKeys
    /\ QueryKeys(output.b) = FixedKeys

\* Two URLs have been built from options that differ in the description
\* only, a space in the one where the other has a plus sign.
C16_Witness ==
  /\ output.done
  /\ input.a = [BaseOptions EXCEPT !.description = << "a b" >>]
  /\ input.b = [BaseOptions EXCEPT !.description = << "a+b" >>]
  /\ output.a # output.b

(***************************************************************************)
(* ContentSpec: the walk applied to a directory with a .jar file and a     *)
(* .txt file of the same bytes, for every byte sequence up to MaxBytes     *)
(* over a few byte values and for some longer ones.                        *)
(***************************************************************************)
\* NUL, LF, 'A', continuation bytes, lead bytes of two and three bytes, and
\* a byte that occurs in no UTF-8 text.
ByteValues == {0, 10, 65, 128, 169, 195, 226, 255}

ByteSeqs ==
  SeqsUpTo(ByteValues, MaxBytes)
  \cup {<< 239, 187, 191, 65 >>, << 240, 159, 146, 150 >>, << 237, 160, 128 >>,
        << 80, 75, 3, 4, 20 >>}

ContentInit ==
  /\ FnInit
  /\ input \in {{Node(ExtractRoot, "app.jar", FALSE, bytes, TRUE),
                 Node(ExtractRoot, "notes.txt", FALSE, bytes, TRUE)} :
                bytes \in ByteSeqs}

ContentNext == WalkApply

ContentSpec == ContentInit /\ [][ContentNext]_vars

\* The six bits a character of the base64 alphabet stands for.
Base64Value(c) ==
  IF c >= 65 /\ c <= 90 THEN c - 65
  ELSE IF c >= 97 /\ c <= 122 THEN c - 71
  ELSE IF c >= 48 /\ c <= 57 THEN c + 4
  ELSE IF c = 43 THEN 62 ELSE 63

\* Buffer.from(content, 'base64')
RECURSIVE Base64Decode(_)
Base64Decode(c) ==
  IF Len(c) < 4 THEN << >>
  ELSE
    LET v1 == Base64Value(c[1])
        v2 == Base64Value(c[2])
        first == v1 * 4 + (v2 \div 16)
    IN IF c[3] = 61 THEN << first >>
       ELSE LET v3 == Base64Value(c[3])
                second == (v2 % 16) * 16 + (v3 \div 4)
            IN IF c[4] = 61 THEN << first, second >>
               ELSE << first, second, (v3 % 4) * 64 + Base64Value(c[4]) >>
                    \o Base64Decode(SubSeq(c, 5, Len(c)))

\* Buffer.from(content, 'utf8')
RECURSIVE Utf8Encode(_)
Utf8Encode(u) ==
  IF Len(u) = 0 THEN << >>
  ELSE
    LET u1 == u[1]
        rest(k) == Utf8Encode(SubSeq(u, k + 1, Len(u)))
    IN
      IF u1 < 128 THEN << u1 >> \o rest(1)
      ELSE IF u1 < 2048 THEN << 192 + (u1 \div 64), 128 + (u1 % 64) >> \o rest(1)
      ELSE IF u1 >= 55296 /\ u1 <= 56319 /\ Len(u) >= 2 /\ u[2] >= 56320 /\ u[2] <= 57343
      THEN LET cp == 65536 + (u1 - 55296) * 1024 + (u[2] - 56320)
           IN << 240 + (cp \div 262144), 128 + ((cp \div 4096) % 64),
                 128 + ((cp \div 64) % 64), 128 + (cp % 64) >> \o rest(2)
      ELSE IF u1 >= 55296 /\ u1 <= 57343 THEN << 239, 191, 189 >> \o rest(1)
      ELSE << 224 + (u1 \div 4096), 128 + ((u1 \div 64) % 64), 128 + (u1 % 64) >>
           \o rest(1)

\* The bytes of the file the walk stored under the key.
BytesOf(tree, key) == (CHOOSE n \in tree : ~n.isDir /\ RelativeToRoot(n) = key).bytes

\* C17: decoding the content of a binary entry from base64 gives the bytes
\* of the file, and encoding the content of a text entry as UTF-8 gives the
\* bytes of the file.
C17_ContentRoundTrips ==
  (output.done /\ ~output.result.threw) =>
    \A k \in Keys(output.result.files) :
      LET e == output.result.files.own[k]
      IN /\ e.type = "binary" => Base64Decode(e.content) = BytesOf(input, k)
         /\ e.type = "text" => Utf8Encode(e.content) = BytesOf(input, k)

(***************************************************************************)
(* Claims about what downloadSpringBootZip leaves on disk, checked for one *)
(* call of scaffold() with every fault of its environment.                 *)
(***************************************************************************)
\* The file at zipPath holds the whole body that was sent to call i.
CompleteZip(i) ==
  disk[tempDir[i]].zip = [exists |-> TRUE, body |-> body[i], chunks |-> MaxChunks]

\* C18: the promise of the download resolves only in the 'finish' handler,
\* when the response has ended and every chunk of the body is in the file;
\* the step that unpacks finds the whole body in the file; and a download
\* that has rejected, or whose stream error handler has run, never
\* resolves.
C18_ResolvesAfterCompleteWrite ==
  [][\A i \in Inv :
       /\ (dl[i].state = "pending" /\ dl'[i].state = "resolved") =>
            /\ zipFile'[i] = "finished" /\ res[i] = "ended"
            /\ written[i] = MaxChunks
            /\ CompleteZip(i)
       /\ (pc[i] = "awaitDownload" /\ pc'[i] = "awaitExtract") =>
            /\ dl[i].state = "resolved"
            /\ CompleteZip(i)
       /\ (dl[i].state = "rejected" \/ zipFile[i] = "errored") =>
            dl'[i].state # "resolved"]_vars

\* A call has unpacked the archive after its download resolved.
C18_Witness ==
  \E i \in Inv :
    /\ pc[i] = "awaitExtract"
    /\ dl[i].state = "resolved" /\ zipFile[i] = "finished"
    /\ ex[i].state = "resolved"
    /\ written[i] = MaxChunks

\* C19: after a response with a status other than 200, and after an error
\* of the request before any response, no write stream was made and there
\* is no file at zipPath; until scaffold() cleans up, the temporary
\* directory is as mkdtempSync made it.
C19_FailedFetchWritesNothing ==
  \A i \in Inv :
    res[i] \in {"unread", "failed"} =>
      /\ dl[i].state = "rejected"
      /\ zipFile[i] = "none" /\ written[i] = 0
      /\ ~disk[tempDir[i]].zip.exists
      /\ pc[i] = "awaitDownload" => disk[tempDir[i]] = EmptyDir

\* The request of a call has failed before any response, and the call has
\* not yet cleaned up.
C19_Witness ==
  \E i \in Inv :
    /\ res[i] = "failed" /\ pc[i] = "awaitDownload"
    /\ dl[i] = Rejected(RequestError("ECONNREFUSED"))
    /\ disk[tempDir[i]] = EmptyDir

====
